---- MODULE Spec2Model ----
(***************************************************************************)
(* Model of the colost crate (src/src/lib.rs): ColoredString, a raw text   *)
(* buffer with a list of code markers, and colored(), which renders the    *)
(* buffer with ANSI escape sequences.                                      *)
(*                                                                         *)
(* The raw String is a sequence of bytes; a char of the input alphabet is  *)
(* the sequence of its UTF-8 bytes, so marker indexes are byte offsets.    *)
(* The rendered String is a sequence of bytes as well: ESC is the byte     *)
(* "ESC", decimal digits are "0".."9".                                     *)
(***************************************************************************)
EXTENDS Integers, Sequences, FiniteSets, TLC

\* raw and code_markers are the fields of ColoredString. history is a
\* history variable: the calls made on the buffer so far, recorded only by
\* the specifications that need them (SpecCalls, SpecAll); no call reads it.
VARIABLES raw, code_markers, history

vars == <<raw, code_markers, history>>

(* ------------------------------ bounds -------------------------------- *)

\* longest raw text, in bytes
MaxLen == 2
\* longest marker list
MaxMarkers == 2
\* longest text one push_str call appends, in bytes
MaxPush == 2
\* most calls in a behaviour that records its calls
MaxCalls == 3
\* the same, when the calls draw from all 16 colours
MaxCallsAll == 2

(* ------------------------------ Color --------------------------------- *)

Color ==
    {"Black", "Red", "Green", "Yellow", "Blue", "Magenta", "Cyan", "White",
     "BrightBlack", "BrightRed", "BrightGreen", "BrightYellow", "BrightBlue",
     "BrightMagenta", "BrightCyan", "BrightWhite"}

\* the colours the rendering specification draws from: a one-digit and a
\* two-digit int_value
SomeColors == {"Green", "BrightWhite"}

int_value(color) ==
    CASE color = "Black" -> 0
      [] color = "Red" -> 1
      [] color = "Green" -> 2
      [] color = "Yellow" -> 3
      [] color = "Blue" -> 4
      [] color = "Magenta" -> 5
      [] color = "Cyan" -> 6
      [] color = "White" -> 7
      [] color = "BrightBlack" -> 60
      [] color = "BrightRed" -> 61
      [] color = "BrightGreen" -> 62
      [] color = "BrightYellow" -> 63
      [] color = "BrightBlue" -> 64
      [] color = "BrightMagenta" -> 65
      [] color = "BrightCyan" -> 66
      [] color = "BrightWhite" -> 67

\* u8 arithmetic
U8(n) == n % 256

(* ------------------------------ text ---------------------------------- *)

\* the chars of the input alphabet: 'a' (one byte) and 'e-acute' (two bytes)
Chars == {"a", "e'"}

Utf8(ch) == IF ch = "a" THEN <<"a">> ELSE <<"C3", "A9">>

\* bytes that do not start a char
Continuation == {"A9"}

RECURSIVE StrsOfLen(_)
StrsOfLen(n) ==
    IF n = 0 THEN {<<>>}
    ELSE UNION {{s \o Utf8(ch) : s \in StrsOfLen(n - Len(Utf8(ch)))} :
                  ch \in {c \in Chars : Len(Utf8(c)) <= n}}

\* the &str arguments of push_str: every string of at most MaxPush bytes
Strs == UNION {StrsOfLen(n) : n \in 0..MaxPush}

\* s.is_char_boundary(i)
is_char_boundary(s, i) ==
    \/ i = 0
    \/ i = Len(s)
    \/ i \in 1..(Len(s) - 1) /\ s[i + 1] \notin Continuation

\* whether &s[from..to] is a valid slice (it panics otherwise)
SliceOk(s, from, to) ==
    /\ from <= to
    /\ to <= Len(s)
    /\ is_char_boundary(s, from)
    /\ is_char_boundary(s, to)

\* &s[from..to], byte offsets from 0, to excluded
Slice(s, from, to) == SubSeq(s, from + 1, to)

(* --------------------------- ColoredString ---------------------------- *)

ANSI_ESCAPE_START == <<"ESC", "[">>
ANSI_ESCAPE_END == <<"m">>

Digit(d) ==
    CASE d = 0 -> "0" [] d = 1 -> "1" [] d = 2 -> "2" [] d = 3 -> "3"
      [] d = 4 -> "4" [] d = 5 -> "5" [] d = 6 -> "6" [] d = 7 -> "7"
      [] d = 8 -> "8" [] d = 9 -> "9"

\* u8::to_string: decimal, no leading zeros
RECURSIVE to_string(_)
to_string(n) ==
    IF n < 10 THEN <<Digit(n)>>
    ELSE to_string(n \div 10) \o <<Digit(n % 10)>>

CodeMarker(index, code) == [index |-> index, code |-> code]

\* push_code recording the offset one past the end of the text
push_code_OffByOne(r, ms, code) == Append(ms, CodeMarker(Len(r) + 1, code))

\* the marker list after push_code(code) on the buffer (r, ms)
push_code(r, ms, code) == Append(ms, CodeMarker(Len(r), code))

\* push_color_code adding the base twice
push_color_code_BaseTwice(r, ms, color, base) ==
    push_code(r, ms, U8(base + base + int_value(color)))

push_color_code(r, ms, color, base) ==
    push_code(r, ms, U8(base + int_value(color)))

\* push_format_code adding 20 when the attribute is enabled
push_format_code_Inverted(r, ms, code, enable) ==
    LET code_ == IF enable THEN U8(code + 20) ELSE code
    IN  push_code(r, ms, code_)

push_format_code(r, ms, code, enable) ==
    LET code_ == IF ~enable THEN U8(code + 20) ELSE code
    IN  push_code(r, ms, code_)

\* the loop closing and reopening the sequence at every marker
RECURSIVE ColoredLoop_NoMerge(_, _, _, _)
ColoredLoop_NoMerge(r, ms, k, st) ==
    IF k > Len(ms) \/ st.panic THEN st
    ELSE
      LET color_marker == ms[k]
          ok == SliceOk(r, st.index, color_marker.index)
          ret1 ==
            IF st.ret = <<>> THEN st.ret \o ANSI_ESCAPE_START
            ELSE st.ret \o ANSI_ESCAPE_END
                   \o Slice(r, st.index, color_marker.index)
                   \o ANSI_ESCAPE_START
          slices == st.ret # <<>>
      IN  IF slices /\ ~ok
            THEN [ret |-> st.ret \o ANSI_ESCAPE_END, index |-> st.index,
                  panic |-> TRUE]
            ELSE ColoredLoop_NoMerge(r, ms, k + 1,
                   [ret |-> ret1 \o to_string(color_marker.code),
                    index |-> color_marker.index,
                    panic |-> FALSE])

\* the loop leaving out the text between two sequences
RECURSIVE ColoredLoop_NoSlice(_, _, _, _)
ColoredLoop_NoSlice(r, ms, k, st) ==
    IF k > Len(ms) \/ st.panic THEN st
    ELSE
      LET color_marker == ms[k]
          ret1 ==
            IF st.ret = <<>> THEN st.ret \o ANSI_ESCAPE_START
            ELSE IF st.index # color_marker.index
              THEN st.ret \o ANSI_ESCAPE_END \o ANSI_ESCAPE_START
              ELSE Append(st.ret, ";")
      IN  ColoredLoop_NoSlice(r, ms, k + 1,
            [ret |-> ret1 \o to_string(color_marker.code),
             index |-> color_marker.index,
             panic |-> FALSE])

\* the for loop of colored(): the state after the markers k..Len(ms), from
\* the state st = (ret, index, panic)
RECURSIVE ColoredLoop(_, _, _, _)
ColoredLoop(r, ms, k, st) ==
    IF k > Len(ms) \/ st.panic THEN st
    ELSE
      LET color_marker == ms[k]
          ok == SliceOk(r, st.index, color_marker.index)
          ret1 ==
            IF st.ret = <<>> THEN st.ret \o ANSI_ESCAPE_START
            ELSE IF st.index # color_marker.index
              THEN st.ret \o ANSI_ESCAPE_END
                     \o Slice(r, st.index, color_marker.index)
                     \o ANSI_ESCAPE_START
              ELSE Append(st.ret, ";")
          slices == st.ret # <<>> /\ st.index # color_marker.index
      IN  IF slices /\ ~ok
            THEN [ret |-> st.ret \o ANSI_ESCAPE_END, index |-> st.index,
                  panic |-> TRUE]
            ELSE ColoredLoop(r, ms, k + 1,
                   [ret |-> ret1 \o to_string(color_marker.code),
                    index |-> color_marker.index,
                    panic |-> FALSE])

\* colored() without the trailing reset sequence
Colored_NoTrailingReset(r, ms) ==
    IF ms = <<>> THEN [ret |-> r, panic |-> FALSE]
    ELSE
      LET st == ColoredLoop(r, ms, 1, [ret |-> <<>>, index |-> 0,
                                        panic |-> FALSE])
      IN  IF st.panic \/ ~SliceOk(r, st.index, Len(r))
            THEN [ret |-> st.ret, panic |-> TRUE]
            ELSE [ret |-> st.ret \o ANSI_ESCAPE_END
                            \o Slice(r, st.index, Len(r)),
                  panic |-> FALSE]

\* colored() without the early return on an empty marker list
Colored_NoEarlyReturn(r, ms) ==
    LET st == ColoredLoop(r, ms, 1, [ret |-> <<>>, index |-> 0,
                                      panic |-> FALSE])
    IN  IF st.panic \/ ~SliceOk(r, st.index, Len(r))
          THEN [ret |-> st.ret, panic |-> TRUE]
          ELSE [ret |-> st.ret \o ANSI_ESCAPE_END
                          \o Slice(r, st.index, Len(r))
                          \o ANSI_ESCAPE_START \o <<"0">>
                          \o ANSI_ESCAPE_END,
                panic |-> FALSE]

\* colored() not closing the last sequence of the markers
Colored_NoFinalEnd(r, ms) ==
    IF ms = <<>> THEN [ret |-> r, panic |-> FALSE]
    ELSE
      LET st == ColoredLoop(r, ms, 1, [ret |-> <<>>, index |-> 0,
                                        panic |-> FALSE])
      IN  IF st.panic \/ ~SliceOk(r, st.index, Len(r))
            THEN [ret |-> st.ret, panic |-> TRUE]
            ELSE [ret |-> st.ret
                            \o Slice(r, st.index, Len(r))
                            \o ANSI_ESCAPE_START \o <<"0">>
                            \o ANSI_ESCAPE_END,
                  panic |-> FALSE]

\* colored(): the returned String, and whether the call panicked instead
Colored(r, ms) ==
    IF ms = <<>> THEN [ret |-> r, panic |-> FALSE]
    ELSE
      LET st == ColoredLoop(r, ms, 1, [ret |-> <<>>, index |-> 0,
                                        panic |-> FALSE])
      IN  IF st.panic \/ ~SliceOk(r, st.index, Len(r))
            THEN [ret |-> st.ret, panic |-> TRUE]
            ELSE [ret |-> st.ret \o ANSI_ESCAPE_END
                            \o Slice(r, st.index, Len(r))
                            \o ANSI_ESCAPE_START \o <<"0">>
                            \o ANSI_ESCAPE_END,
                  panic |-> FALSE]

(* ------------------------------ calls --------------------------------- *)

\* one call of the public interface, as the history records it
Call(name, color, enable, text) ==
    [name |-> name, color |-> color, enable |-> enable, text |-> text]

\* the limits of a specification: the longest marker list and raw text, the
\* number of calls, and whether the calls are recorded in the history
Limits(markers, len, calls, trace) ==
    [markers |-> markers, len |-> len, calls |-> calls, trace |-> trace]

Record(lim, call) == IF lim.trace THEN Append(history, call) ELSE history

MayCall(lim) == lim.trace => Len(history) < lim.calls

\* new() and with_capacity(): empty text, no marker
Init ==
    /\ raw = <<>>
    /\ code_markers = <<>>
    /\ history = <<>>

reset(lim) ==
    /\ MayCall(lim)
    /\ Len(code_markers) < lim.markers
    /\ code_markers' = push_code(raw, code_markers, 0)
    /\ history' = Record(lim, Call("reset", "", FALSE, <<>>))
    /\ UNCHANGED raw

set_fg(color, lim) ==
    /\ MayCall(lim)
    /\ Len(code_markers) < lim.markers
    /\ code_markers' = push_color_code(raw, code_markers, color, 30)
    /\ history' = Record(lim, Call("set_fg", color, FALSE, <<>>))
    /\ UNCHANGED raw

set_bg(color, lim) ==
    /\ MayCall(lim)
    /\ Len(code_markers) < lim.markers
    /\ code_markers' = push_color_code(raw, code_markers, color, 40)
    /\ history' = Record(lim, Call("set_bg", color, FALSE, <<>>))
    /\ UNCHANGED raw

set_faint(enable, lim) ==
    /\ MayCall(lim)
    /\ Len(code_markers) < lim.markers
    /\ code_markers' = push_format_code(raw, code_markers, 1, enable)
    /\ history' = Record(lim, Call("set_faint", "", enable, <<>>))
    /\ UNCHANGED raw

set_bold(enable, lim) ==
    /\ MayCall(lim)
    /\ Len(code_markers) < lim.markers
    /\ code_markers' = push_format_code(raw, code_markers, 2, enable)
    /\ history' = Record(lim, Call("set_bold", "", enable, <<>>))
    /\ UNCHANGED raw

set_italic(enable, lim) ==
    /\ MayCall(lim)
    /\ Len(code_markers) < lim.markers
    /\ code_markers' = push_format_code(raw, code_markers, 3, enable)
    /\ history' = Record(lim, Call("set_italic", "", enable, <<>>))
    /\ UNCHANGED raw

set_underline(enable, lim) ==
    /\ MayCall(lim)
    /\ Len(code_markers) < lim.markers
    /\ code_markers' = push_format_code(raw, code_markers, 4, enable)
    /\ history' = Record(lim, Call("set_underline", "", enable, <<>>))
    /\ UNCHANGED raw

set_slow_blink(enable, lim) ==
    /\ MayCall(lim)
    /\ Len(code_markers) < lim.markers
    /\ code_markers' = push_format_code(raw, code_markers, 5, enable)
    /\ history' = Record(lim, Call("set_slow_blink", "", enable, <<>>))
    /\ UNCHANGED raw

set_fast_blink(enable, lim) ==
    /\ MayCall(lim)
    /\ Len(code_markers) < lim.markers
    /\ code_markers' = push_format_code(raw, code_markers, 6, enable)
    /\ history' = Record(lim, Call("set_fast_blink", "", enable, <<>>))
    /\ UNCHANGED raw

push(ch, lim) ==
    /\ MayCall(lim)
    /\ Len(raw) + Len(Utf8(ch)) <= lim.len
    /\ raw' = raw \o Utf8(ch)
    /\ history' = Record(lim, Call("push", "", FALSE, Utf8(ch)))
    /\ UNCHANGED code_markers

push_str(string, lim) ==
    /\ MayCall(lim)
    /\ Len(raw) + Len(string) <= lim.len
    /\ raw' = raw \o string
    /\ history' = Record(lim, Call("push_str", "", FALSE, string))
    /\ UNCHANGED code_markers

\* any call, its colour drawn from colors
AnyCall(colors, lim) ==
    \/ reset(lim)
    \/ \E color \in colors : set_fg(color, lim)
    \/ \E color \in colors : set_bg(color, lim)
    \/ \E enable \in BOOLEAN : set_faint(enable, lim)
    \/ \E enable \in BOOLEAN : set_bold(enable, lim)
    \/ \E enable \in BOOLEAN : set_italic(enable, lim)
    \/ \E enable \in BOOLEAN : set_underline(enable, lim)
    \/ \E enable \in BOOLEAN : set_slow_blink(enable, lim)
    \/ \E enable \in BOOLEAN : set_fast_blink(enable, lim)
    \/ \E ch \in Chars : push(ch, lim)
    \/ \E string \in Strs : push_str(string, lim)

\* buffers of bounded size
Next == AnyCall(SomeColors, Limits(MaxMarkers, MaxLen, 0, FALSE))

Spec == Init /\ [][Next]_vars

\* the first MaxCalls calls on a new buffer, recorded
NextCalls ==
    AnyCall(SomeColors, Limits(MaxCalls, MaxCalls * MaxPush, MaxCalls, TRUE))

SpecCalls == Init /\ [][NextCalls]_vars

\* the first MaxCallsAll calls on a new buffer, recorded, every colour
NextAll ==
    AnyCall(Color, Limits(MaxCallsAll, MaxCallsAll * MaxPush, MaxCallsAll, TRUE))

SpecAll == Init /\ [][NextAll]_vars

(* ------------------------- reading the output ------------------------- *)

\* the String colored() returns in the current state
Out == Colored(raw, code_markers).ret

Digits == {"0", "1", "2", "3", "4", "5", "6", "7", "8", "9"}

DigitValue(c) ==
    CASE c = "0" -> 0 [] c = "1" -> 1 [] c = "2" -> 2 [] c = "3" -> 3
      [] c = "4" -> 4 [] c = "5" -> 5 [] c = "6" -> 6 [] c = "7" -> 7
      [] c = "8" -> 8 [] c = "9" -> 9

\* s[i..] starts with codes joined by ';' and then 'm': the position of
\* that 'm', and 0 when it does not (digit: the byte before i is a digit)
RECURSIVE EscEnd(_, _, _)
EscEnd(s, i, digit) ==
    IF i > Len(s) THEN 0
    ELSE IF s[i] \in Digits THEN EscEnd(s, i + 1, TRUE)
    ELSE IF s[i] = ";" /\ digit THEN EscEnd(s, i + 1, FALSE)
    ELSE IF s[i] = "m" /\ digit THEN i
    ELSE 0

\* the position of the 'm' of the escape sequence that starts at s[i], 0 when
\* none starts there
EscAt(s, i) ==
    IF s[i] = "ESC" /\ i + 1 <= Len(s) /\ s[i + 1] = "["
      THEN EscEnd(s, i + 2, FALSE)
      ELSE 0

\* the numbers of a text of decimal codes joined by ';'
RECURSIVE CodesOf(_, _, _)
CodesOf(body, i, n) ==
    IF i > Len(body) THEN <<n>>
    ELSE IF body[i] = ";" THEN <<n>> \o CodesOf(body, i + 1, 0)
    ELSE CodesOf(body, i + 1, 10 * n + DigitValue(body[i]))

\* s from position i on, read as escape sequences (seqs: the codes of each)
\* and the text around them (lits: lits[1] before the first sequence,
\* lits[q + 1] after the q-th)
RECURSIVE ParseFrom(_, _, _)
ParseFrom(s, i, acc) ==
    IF i > Len(s) THEN acc
    ELSE
      LET e == EscAt(s, i)
      IN  IF e > 0
            THEN ParseFrom(s, e + 1,
                   [seqs |-> Append(acc.seqs,
                                    CodesOf(SubSeq(s, i + 2, e - 1), 1, 0)),
                    lits |-> Append(acc.lits, <<>>)])
            ELSE ParseFrom(s, i + 1,
                   [seqs |-> acc.seqs,
                    lits |-> [acc.lits EXCEPT ![Len(acc.lits)] =
                                Append(@, s[i])]])

Parse(s) == ParseFrom(s, 1, [seqs |-> <<>>, lits |-> <<<<>>>>])

RECURSIVE Concat(_)
Concat(ss) == IF ss = <<>> THEN <<>> ELSE Head(ss) \o Concat(Tail(ss))

\* s without its escape sequences
Strip(s) == Concat(Parse(s).lits)

EndsWith(s, t) ==
    Len(t) <= Len(s) /\ SubSeq(s, Len(s) - Len(t) + 1, Len(s)) = t

\* how many bytes of s are b
CountOf(s, b) == Cardinality({i \in 1..Len(s) : s[i] = b})

ResetSeq == <<"ESC", "[", "0", "m">>

\* the bytes a raw text is made of
TextBytes == {"a", "C3", "A9"}

\* the codes of the markers, one list for each run of markers at one offset
RECURSIVE GroupCodes(_)
GroupCodes(ms) ==
    IF ms = <<>> THEN <<>>
    ELSE IF Len(ms) >= 2 /\ ms[Len(ms) - 1].index = ms[Len(ms)].index
      THEN LET g == GroupCodes(SubSeq(ms, 1, Len(ms) - 1))
           IN  [g EXCEPT ![Len(g)] = Append(@, ms[Len(ms)].code)]
      ELSE Append(GroupCodes(SubSeq(ms, 1, Len(ms) - 1)),
                  <<ms[Len(ms)].code>>)

StylingNames ==
    {"reset", "set_fg", "set_bg", "set_faint", "set_bold", "set_italic",
     "set_underline", "set_slow_blink", "set_fast_blink"}

IsStyling(call) == call.name \in StylingNames

IsAppend(call) == call.name \in {"push", "push_str"}

(* ------------------------------ claims -------------------------------- *)

\* C1: removing every escape sequence from the output of colored() gives
\* exactly raw(), for every buffer, text before the first marker included.
C1_RoundTrip == Strip(Out) = raw

\* C2: text A (not empty), then set_fg(c), then text B: colored() is A, then
\* ESC[<30 + int_value(c)>m, then B, then ESC[0m.
C2_TextBeforeFirstMarker ==
    \A c \in Color :
      (/\ Len(code_markers) = 1
       /\ code_markers[1].index > 0
       /\ code_markers[1].code = 30 + int_value(c))
      => Out = Slice(raw, 0, code_markers[1].index)
                 \o <<"ESC", "[">> \o to_string(30 + int_value(c)) \o <<"m">>
                 \o Slice(raw, code_markers[1].index, Len(raw))
                 \o ResetSeq

\* the last marker is a reset at the end of the text, alone at its offset
LastIsLoneReset ==
    LET n == Len(code_markers)
    IN  /\ n >= 1
        /\ code_markers[n].code = 0
        /\ code_markers[n].index = Len(raw)
        /\ n >= 2 => code_markers[n - 1].index # code_markers[n].index

\* C3: with at least one marker the output of colored() ends with ESC[0m, and
\* that reset comes on top of the markers' sequences: after a last reset()
\* at the end of the text, alone at its offset, it ends with ESC[0mESC[0m.
C3_TrailingReset ==
    code_markers # <<>> =>
      /\ EndsWith(Out, ResetSeq)
      /\ LastIsLoneReset => EndsWith(Out, ResetSeq \o ResetSeq)

C3_Witness ==
    /\ LastIsLoneReset
    /\ Len(code_markers) >= 2
    /\ EndsWith(Out, <<"a">> \o ResetSeq \o ResetSeq)

\* C4: without markers colored() equals raw() and holds no escape start, not
\* even the trailing reset.
C4_NoMarkers ==
    code_markers = <<>> =>
      /\ Out = raw
      /\ CountOf(Out, "ESC") = 0
      /\ Parse(Out).seqs = <<>>

C4_Witness == code_markers = <<>> /\ Len(raw) >= 2 /\ Out = raw

\* C5: the markers of one offset (styling calls with no text pushed between
\* them) give exactly one escape sequence, holding all their codes in call
\* order: the sequences of the output are the runs of markers of one offset,
\* then the trailing reset.
C5_Merge ==
    code_markers # <<>> =>
      Parse(Out).seqs = Append(GroupCodes(code_markers), <<0>>)

C5_Witness ==
    /\ Len(code_markers) >= 2
    /\ code_markers[1].index > 0
    /\ code_markers[1].index = code_markers[2].index
    /\ Len(Parse(Out).seqs[1]) >= 2

\* the last three calls are a styling call, an append and a styling call
SplitCase ==
    LET n == Len(history)
    IN  /\ n >= 3
        /\ IsStyling(history[n - 2])
        /\ IsAppend(history[n - 1])
        /\ IsStyling(history[n])

\* the output has the last two markers in two sequences, the code of the
\* first ending one sequence, the code of the second alone in the next, and
\* exactly the text pushed between the two calls between them
SplitOutput ==
    LET P == Parse(Out)
        k == Len(P.seqs)
        m == Len(code_markers)
        t == history[Len(history) - 1].text
        first == P.seqs[k - 2]
    IN  /\ k >= 3
        /\ first[Len(first)] = code_markers[m - 1].code
        /\ P.seqs[k - 1] = <<code_markers[m].code>>
        /\ P.lits[k - 1] = t

\* C6, as stated: a styling call, an append of T (empty or not), a styling
\* call: two separate escape sequences with exactly T between them.
C6_Split_AnyText == SplitCase => SplitOutput

\* C6, amended: the same when T is not empty.
C6_Split ==
    (SplitCase /\ history[Len(history) - 1].text # <<>>) => SplitOutput

C6_Witness ==
    /\ SplitCase
    /\ history[Len(history) - 1].text = <<"C3", "A9">>
    /\ SplitOutput

\* the code the call records, by the table of the interface
ExpectedCode(call) ==
    CASE call.name = "reset" -> 0
      [] call.name = "set_fg" -> 30 + int_value(call.color)
      [] call.name = "set_bg" -> 40 + int_value(call.color)
      [] call.name = "set_faint" -> IF call.enable THEN 1 ELSE 21
      [] call.name = "set_bold" -> IF call.enable THEN 2 ELSE 22
      [] call.name = "set_italic" -> IF call.enable THEN 3 ELSE 23
      [] call.name = "set_underline" -> IF call.enable THEN 4 ELSE 24
      [] call.name = "set_slow_blink" -> IF call.enable THEN 5 ELSE 25
      [] call.name = "set_fast_blink" -> IF call.enable THEN 6 ELSE 26

\* C7: a styling call appends exactly one marker, at the byte length of the
\* raw text, with the code of its table (reset 0, set_fg 30 + int_value,
\* set_bg 40 + int_value, the attributes 1..6, plus 20 when disabled), and
\* leaves the earlier markers and the raw text as they are.
C7_StylingAppendsOneMarker ==
    [][(history' # history /\ IsStyling(history'[Len(history')])) =>
         /\ raw' = raw
         /\ code_markers' =
              Append(code_markers,
                     [index |-> Len(raw),
                      code |-> ExpectedCode(history'[Len(history')])])]_vars

C7_Witness ==
    /\ history # <<>>
    /\ history[Len(history)].name = "set_bold"
    /\ ~history[Len(history)].enable
    /\ Len(raw) > 0
    /\ code_markers[Len(code_markers)] = [index |-> Len(raw), code |-> 22]

\* the codes of the markers and the codes in the output of colored()
AllCodes ==
    LET seqs == Parse(Out).seqs
    IN  {code_markers[i].code : i \in 1..Len(code_markers)}
          \cup UNION {{seqs[i][j] : j \in 1..Len(seqs[i])} :
                        i \in 1..Len(seqs)}

\* C8, as stated: every marker's code, and so every code colored() emits,
\* is in 0..99.
C8_CodesUpTo99 == AllCodes \subseteq 0..99

\* C8, amended: every code is in 0..107 (set_bg of a bright colour records
\* 100..107).
C8_CodesUpTo107 == AllCodes \subseteq 0..107

C8_Witness ==
    /\ history # <<>>
    /\ history[Len(history)] = Call("set_bg", "BrightWhite", FALSE, <<>>)
    /\ 107 \in AllCodes

\* C9: the marker offsets never decrease along the list and none exceeds
\* the length of the raw text, so every slice colored() takes is valid and
\* colored() does not panic.
C9_OffsetsOrdered ==
    /\ \A i \in 1..Len(code_markers) :
         /\ code_markers[i].index <= Len(raw)
         /\ is_char_boundary(raw, code_markers[i].index)
    /\ \A i, j \in 1..Len(code_markers) :
         i < j => code_markers[i].index <= code_markers[j].index
    /\ ~Colored(raw, code_markers).panic

C9_Witness ==
    /\ Len(code_markers) >= 2
    /\ 0 < code_markers[1].index
    /\ code_markers[1].index < code_markers[2].index
    /\ code_markers[2].index = Len(raw)
    /\ ~Colored(raw, code_markers).panic

\* C10: with at least one marker the output of colored() is a start token,
\* codes joined by ';', an end token, a slice of text, and so on: it starts
\* with a sequence, nothing but text lies outside the sequences, the start
\* and end tokens are balanced, and there is one sequence for each distinct
\* marker offset plus the trailing reset.
C10_WellFormed ==
    code_markers # <<>> =>
      LET P == Parse(Out)
      IN  /\ P.lits[1] = <<>>
          /\ \A q \in 1..Len(P.lits) :
               \A i \in 1..Len(P.lits[q]) : P.lits[q][i] \in TextBytes
          /\ CountOf(Out, "ESC") = Len(P.seqs)
          /\ CountOf(Out, "m") = Len(P.seqs)
          /\ Len(P.seqs) =
               Cardinality({code_markers[i].index :
                              i \in 1..Len(code_markers)}) + 1

C10_Witness ==
    /\ Len(code_markers) >= 2
    /\ code_markers[1].index # code_markers[2].index
    /\ Len(Parse(Out).seqs) = 3
    /\ Parse(Out).lits[2] # <<>>

====
